---- MODULE Spec2Model ----
(***************************************************************************)
(* Model of the Recorder class (src/unnamed/part_000, lines 191-401): the  *)
(* capture start/stop lifecycle, the popup notification, the MediaRecorder *)
(* callbacks and the frame-driven state machine of recordAnimation.        *)
(*                                                                         *)
(* Time is counted in frame ticks of 1/60 s: the clip duration and the     *)
(* animation clock are integers, so `time + 1.0/60 >= animationDuration`   *)
(* reads `time + 1 >= animationDuration`.                                  *)
(***************************************************************************)
EXTENDS Integers, Sequences, FiniteSets, TLC

\* ------------------------------------------------------------------ bounds
MaxRuns == 2          \* recordAnimation invocations in one behaviour
MaxWork == 3          \* external calls made, plus twice the runs invoked
MaxDuration == 2      \* longest clip (ticks) bound by changeFBX under Spec
MaxTickDuration == 9  \* longest clip (ticks) under the one-tick-per-frame clock
MaxFrames == 8        \* frames followed after a run has called startRecording
MaxStep == 1          \* largest clock advance (ticks) of one frame under Spec
MaxTickFrames == 14   \* frames followed after startRecording under SpecTick
MaxPathLen == 5       \* longest gvrm.fileName (characters) under SpecFile
MaxUrlLen == 2        \* longest character.animationUrl (characters) under SpecFile
MaxSessionCalls == 5  \* startRecording/stopRecording calls under SpecSession
MaxPending == 2       \* avatar switches waiting at `await gvrm.remove(scene)`
MaxTouchId == 1       \* largest touch identifier under SpecVC
MaxReach == 150       \* farthest touch from the joystick centre (px) under SpecVC

\* --------------------------------------------------------- program constants
settleThreshold == 5  \* frameCount2 > 5
NumGvrmFiles == 9     \* gvrmFiles.length
joystickRadius == 100 \* this.joystickRadius (px)
LookAhead == 1        \* 1.0/60 s, one tick

Runs == 1..MaxRuns
MimeTypes == {"video/mp4", "video/webm;codecs=h264", "video/webm"}

VARIABLES
  host,       \* what the browser offers: window.MediaRecorder, isTypeSupported
  rec,        \* the Recorder instance (its fields and the constructor's closure)
  clock,      \* gvrm.character.action: time and _clip.duration
  run,        \* per recordAnimation invocation: the closure of its promise
  rafQueue,   \* callbacks registered with requestAnimationFrame for the next frame
  running,    \* callbacks of the frame in progress that have not run yet
  calls,      \* external calls made so far
  lastCall,   \* the external call made last
  obs,        \* per run: what an observer of the run counts
  app,        \* src/main.js: the avatar indices, the status list, the avatar
  vc          \* src/apps/virtualController.js: the VirtualController instance

vars == <<host, rec, clock, run, rafQueue, running, calls, lastCall, obs, app, vc>>

\* The variables of the Recorder and of its host.
recorderVars == <<host, rec, clock, run, rafQueue, running, calls, lastCall, obs>>

\* ------------------------------------------------------------ constructor
\* `this` after the early return of an unsupported browser: only isSupported
\* is set; the other fields are undefined (falsy) and never read.
Unsupported ==
  [isSupported |-> FALSE, isRecording |-> FALSE, popup |-> "none", domPopups |-> 0,
   timers |-> 0,
   mimeType |-> "none", mrState |-> "inactive", mrStarts |-> 0, mrStops |-> 0,
   events |-> <<>>, recordedChunks |-> <<>>, this_recordedChunks |-> <<>>,
   download |-> [chunks |-> <<>>, ext |-> "none", filename |-> <<>>],
   currentRecordingResolve |-> 0, gvrm |-> FALSE,
   fileName |-> <<>>, animationUrl |-> <<>>, keyListener |-> FALSE]

SelectMimeType(h) ==
  IF "video/mp4" \in h.types THEN "video/mp4"
  ELSE IF "video/webm;codecs=h264" \in h.types THEN "video/webm;codecs=h264"
  ELSE IF "video/webm" \in h.types THEN "video/webm"
  ELSE "none"

Constructor(h) ==
  IF ~h.mediaRecorder \/ "video/webm" \notin h.types THEN Unsupported
  ELSE IF SelectMimeType(h) = "none" THEN Unsupported
  ELSE [Unsupported EXCEPT !.isSupported = TRUE,
                           !.mimeType = SelectMimeType(h),
                           !.keyListener = TRUE]

\* ------------------------------------------------------------------ popup
\* hidePopup: the element this.popup refers to is removed from document.body
\* (domPopups: the popup elements attached to it) and the reference cleared.
HidePopup(s) ==
  IF s.popup # "none" THEN [s EXCEPT !.popup = "none", !.domPopups = @ - 1] ELSE s

\* Mutant of ShowPopup: the popup on display is not removed first.
ShowPopupKeepsOld(s, message, persistent) ==
  [s EXCEPT !.popup = message,
            !.domPopups = @ + 1,
            !.timers = IF persistent THEN @ ELSE @ + 1]

\* showPopup(message, isRecording): the popup is replaced; a message that is
\* not the recording indicator arms a 2 s timer that calls hidePopup.
ShowPopup(s, message, persistent) ==
  LET h == HidePopup(s)
  IN  [h EXCEPT !.popup = message,
                !.domPopups = @ + 1,
                !.timers = IF persistent THEN @ ELSE @ + 1]

\* ------------------------------------------------------- start / stop / toggle
\* startRecording past its guard.
BeginCapture(s) ==
  ShowPopup([s EXCEPT !.this_recordedChunks = <<>>,
                      !.mrState = "recording",
                      !.mrStarts = @ + 1,
                      !.isRecording = TRUE],
            "recording", TRUE)

\* Mutants of StartRecording: the guard without `!this.isSupported`, and
\* without `this.isRecording`.
StartRecordingNoSupportCheck(s) == IF s.isRecording THEN s ELSE BeginCapture(s)

StartRecordingNoRecordingCheck(s) == IF ~s.isSupported THEN s ELSE BeginCapture(s)

StartRecording(s) ==
  IF ~s.isSupported \/ s.isRecording THEN s ELSE BeginCapture(s)

\* mediaRecorder.stop() makes the recorder inactive and queues the
\* dataavailable event and then the stop event of the session.
StopRecording(s) ==
  IF ~s.isSupported \/ ~s.isRecording THEN s
  ELSE ShowPopup(HidePopup(
         [s EXCEPT !.mrState = "inactive",
                   !.mrStops = @ + 1,
                   !.events = @ \o << [type |-> "dataavailable", session |-> s.mrStarts],
                                      [type |-> "stop", session |-> s.mrStarts] >>,
                   !.isRecording = FALSE]),
         "stopped", FALSE)

\* Mutant of ToggleRecording: the dispatch ignores isRecording.
ToggleRecordingAlwaysStarts(s) ==
  IF ~s.isSupported THEN s ELSE StartRecording(s)

ToggleRecording(s) ==
  IF ~s.isSupported THEN s
  ELSE IF s.isRecording THEN StopRecording(s) ELSE StartRecording(s)

\* ------------------------------------------------- MediaRecorder callbacks
\* mediaRecorder.ondataavailable: a chunk of positive size is pushed onto the
\* constructor's closure variable recordedChunks.
OnDataAvailable(s, session, size) ==
  IF size > 0 THEN [s EXCEPT !.recordedChunks = Append(@, session)] ELSE s

IncludesMp4(mimeType) == mimeType = "video/mp4"

FileExt(mimeType) ==
  IF mimeType # "none" /\ IncludesMp4(mimeType) THEN "mp4" ELSE "webm"

\* A string is the sequence of its characters; the empty string and
\* undefined are both <<>> (both are falsy).
\* str.split(sep): the pieces of str between the occurrences of sep.
RECURSIVE Split(_, _)
Split(str, sep) ==
  IF \A i \in 1..Len(str) : str[i] # sep THEN <<str>>
  ELSE LET i == CHOOSE k \in 1..Len(str) :
                  str[k] = sep /\ \A j \in 1..(k - 1) : str[j] # sep
       IN  <<SubSeq(str, 1, i - 1)>> \o Split(SubSeq(str, i + 1, Len(str)), sep)

Pop(array) == array[Len(array)]
Shift(array) == array[1]

\* path.split('/').pop().split('.').shift()
BaseName(path) == Shift(Split(Pop(Split(path, "/")), "."))

\* The filename of the download, without `.${fileExt}`.
FileName(s) ==
  IF s.gvrm /\ s.fileName # <<>>
  THEN IF s.animationUrl # <<>>
       THEN <<"recording", "_">> \o BaseName(s.fileName) \o <<"_">>
              \o BaseName(s.animationUrl)
       ELSE <<"recording", "_">> \o BaseName(s.fileName)
  ELSE <<"recording">>

\* Mutant of OnStopDownload: the finalization also clears isRecording.
OnStopDownloadClearsRecording(s) ==
  [s EXCEPT !.download = [chunks |-> s.recordedChunks, ext |-> FileExt(s.mimeType),
                          filename |-> FileName(s)],
            !.recordedChunks = <<>>,
            !.isRecording = FALSE]

\* Mutant of OnStopDownload: the closure's chunks are not reset.
OnStopDownloadKeepsChunks(s) ==
  [s EXCEPT !.download = [chunks |-> s.recordedChunks, ext |-> FileExt(s.mimeType),
                          filename |-> FileName(s)]]

\* mediaRecorder.onstop, up to `recordedChunks = []`: the blob is assembled
\* from the closure's chunks and downloaded (download: the file saved last).
OnStopDownload(s) ==
  [s EXCEPT !.download = [chunks |-> s.recordedChunks, ext |-> FileExt(s.mimeType),
                          filename |-> FileName(s)],
            !.recordedChunks = <<>>]

\* mediaRecorder.onstop, the end: the pending resolve function, if any, is
\* called and the slot cleared.  ResolvedBy(s) is the run whose promise that
\* call resolves (0: none).
ResolvedBy(s) == s.currentRecordingResolve

\* Mutant of OnStop: the slot is not cleared after the resolve call.
OnStopKeepsSlot(s) == OnStopDownload(s)

OnStop(s) ==
  [OnStopDownload(s) EXCEPT !.currentRecordingResolve = 0]

\* ------------------------------------------------------------ key listener
ToLowerCase(key) ==
  CASE key = "R" -> "r"
    [] key = "G" -> "g"
    [] OTHER -> key

\* Key presses: r, R or g, with no modifier or with one of the four.
NoModifier == [ctrlKey |-> FALSE, altKey |-> FALSE, metaKey |-> FALSE, shiftKey |-> FALSE]

Modifiers ==
  {NoModifier, [NoModifier EXCEPT !.ctrlKey = TRUE], [NoModifier EXCEPT !.altKey = TRUE],
   [NoModifier EXCEPT !.metaKey = TRUE], [NoModifier EXCEPT !.shiftKey = TRUE]}

KeyEvents ==
  {[key |-> k, ctrlKey |-> m.ctrlKey, altKey |-> m.altKey, metaKey |-> m.metaKey,
    shiftKey |-> m.shiftKey] : k \in {"r", "R", "g"}, m \in Modifiers}

\* Mutant of KeyTriggers: the condition without the ctrlKey test.
KeyTriggersIgnoresCtrl(e) ==
  ToLowerCase(e.key) = "r" /\ ~e.altKey /\ ~e.metaKey

KeyTriggers(e) ==
  ToLowerCase(e.key) = "r" /\ ~e.ctrlKey /\ ~e.altKey /\ ~e.metaKey

\* What the observer notes as the last external call when it is the key
\* press e.
KeyNames ==
  [r |-> <<"keydown r", "keydown Ctrl+r", "keydown Alt+r", "keydown Meta+r",
           "keydown Shift+r">>,
   R |-> <<"keydown R", "keydown Ctrl+R", "keydown Alt+R", "keydown Meta+R",
           "keydown Shift+R">>,
   g |-> <<"keydown g", "keydown Ctrl+g", "keydown Alt+g", "keydown Meta+g",
           "keydown Shift+g">>]

KeyName(e) ==
  KeyNames[e.key][IF e.ctrlKey THEN 2 ELSE IF e.altKey THEN 3
                  ELSE IF e.metaKey THEN 4 ELSE IF e.shiftKey THEN 5 ELSE 1]

OnKeyDown(s, e) ==
  IF s.keyListener /\ KeyTriggers(e) THEN ToggleRecording(s) ELSE s

\* ------------------------------------------------- recordAnimation closure
NewRun ==
  [pc |-> "idle", resolved |-> FALSE, animationDuration |-> 0,
   recording1Started |-> FALSE, recording2Started |-> FALSE,
   recordingFinished |-> FALSE, frameCount2 |-> 0]

NewObs ==
  [framesSinceStart |-> -1, startCalls |-> 0, stopsScheduled |-> 0,
   schedFrame |-> -1, stopFrame |-> -1, frameStartPhase |-> 0, wraps |-> 0]

Poll(r) == [kind |-> "poll", run |-> r]
Stop(r) == [kind |-> "stop", run |-> r]

\* Mutant of LookAheadHolds: the comparison without the look-ahead.
LookAheadMissing(time, animationDuration) == time >= animationDuration

\* this.gvrm.character.action.time + 1.0/60 >= animationDuration
LookAheadHolds(time, animationDuration) == time + LookAhead >= animationDuration

\* The phase of the spec's state machine, from the closure's flags.
PhaseOf(c) ==
  IF c.recordingFinished THEN 4
  ELSE IF c.recording2Started THEN 3
  ELSE IF c.recording1Started THEN 2
  ELSE 1

Polling(r) ==
  \/ \E i \in 1..Len(rafQueue) : rafQueue[i] = Poll(r)
  \/ \E i \in 1..Len(running) : running[i] = Poll(r)

\* ------------------------------------------------------------------ Init
Hosts == [mediaRecorder : BOOLEAN, types : SUBSET MimeTypes]

\* A browser without MediaRecorder, one that supports no type, one that
\* supports every type.
SomeHosts == {h \in Hosts : h.types \in {{}, MimeTypes}}

\* ------------------------------------------------ main.js: avatar switching
\* The page after the avatar gvrmFiles[i] named in the URL has been loaded
\* and the status list drawn.  activeItem: the index of the avatar item that
\* updateStatusList gave the class 'active'; requested: the index of the file
\* passed to the latest gvrm.load; pending: the switch handlers suspended at
\* `await gvrm.remove(scene)`, each with the index variable it will read.
AppStart(i) ==
  [gvrm |-> TRUE, isReady |-> TRUE, isLoading |-> FALSE,
   currentGvrmIndex |-> i, activeItem |-> i, requested |-> i,
   vrControllers |-> FALSE, vrCurrentGvrmIndex |-> 0, pending |-> <<>>]

UpdateStatusList(a) == [a EXCEPT !.activeItem = a.currentGvrmIndex]

\* The part of the three handlers after the guard, up to the first await.
SwitchAvatar(a) ==
  [UpdateStatusList([a EXCEPT !.currentGvrmIndex = (@ + 1) % NumGvrmFiles])
     EXCEPT !.pending = Append(@, "main")]

\* keydown with event.code === "KeyG"
OnKeyG(a) ==
  IF ~a.gvrm \/ ~a.isReady \/ a.isLoading THEN a ELSE SwitchAvatar(a)

\* click on #mobile-switch-avatar
OnMobileSwitchAvatar(a) ==
  IF ~a.gvrm \/ ~a.isReady THEN a ELSE SwitchAvatar(a)

\* click on #vr-button: setupVR runs once and declares its own index.
OnVrButton(a) ==
  IF ~a.vrControllers /\ a.gvrm
  THEN [a EXCEPT !.vrControllers = TRUE, !.vrCurrentGvrmIndex = 0]
  ELSE a

\* selectstart of a VR controller whose ray hits the 'Switch Avatar' panel.
OnSelectStart(a) ==
  IF ~a.gvrm \/ ~a.isReady \/ a.isLoading THEN a
  ELSE [a EXCEPT !.vrCurrentGvrmIndex = (@ + 1) % NumGvrmFiles,
                 !.pending = Append(@, "vr")]

\* The handler suspended first resumes and calls gvrm.load with the file at
\* its index variable.
ResumeSwitch(a) ==
  [a EXCEPT !.requested = IF Head(a.pending) = "vr" THEN a.vrCurrentGvrmIndex
                          ELSE a.currentGvrmIndex,
            !.pending = Tail(@)]

\* ---------------------------------------------- virtualController.js
\* The joystick values are in hundredths (x = 100 is 1.0).  A touch is its
\* identifier and its position relative to the centre of the joystick area
\* (touch.clientX - joystickCenter.x, touch.clientY - joystickCenter.y); the
\* positions followed lie on the two axes, where the distance is the absolute
\* value of the coordinate that is not 0.
NoTouch == -1

ButtonNames == {"cross", "circle", "triangle", "square"}

Released == [b \in ButtonNames |-> FALSE]

\* The instance after the constructor.  container: this.container is not
\* null; containers: the #virtual-controller elements attached to the
\* document; listeners: the sets of touch listeners on this.joystickArea;
\* atLastUpdate: this.buttons as it was at the latest updatePreviousState().
NewVirtualController ==
  [enabled |-> FALSE, container |-> FALSE, containers |-> 0, listeners |-> 0,
   joystick |-> [x |-> 0, y |-> 0, magnitude |-> 0, active |-> FALSE],
   joystickTouch |-> NoTouch,
   buttons |-> Released, previousButtons |-> Released, atLastUpdate |-> Released]

Abs(n) == IF n < 0 THEN -n ELSE n

Min(a, b) == IF a < b THEN a ELSE b

Max(a, b) == IF a > b THEN a ELSE b

\* Math.sqrt(dx * dx + dy * dy) for a point of an axis.
Distance(dx, dy) == IF dy = 0 THEN Abs(dx) ELSE Abs(dy)

UpdateJoystickPosition(v, touch) ==
  LET dx == touch.dx
      dy == touch.dy
      distance == Distance(dx, dy)
      normX == IF distance > joystickRadius THEN (dx * 100) \div distance
               ELSE (dx * 100) \div joystickRadius
      normY == IF distance > joystickRadius THEN (dy * 100) \div distance
               ELSE (dy * 100) \div joystickRadius
  IN  [v EXCEPT !.joystick.x = Max(-100, Min(100, normX)),
                !.joystick.y = Max(-100, Min(100, normY)),
                !.joystick.magnitude = Min(100, (distance * 100) \div joystickRadius)]

\* Mutant of OnJoystickStart: without `if (this.joystickTouch !== null) return`.
OnJoystickStartNoGuard(v, changedTouches) ==
  [UpdateJoystickPosition([v EXCEPT !.joystickTouch = changedTouches[1].identifier],
                          changedTouches[1])
     EXCEPT !.joystick.active = TRUE]

OnJoystickStart(v, changedTouches) ==
  IF v.joystickTouch # NoTouch THEN v
  ELSE [UpdateJoystickPosition([v EXCEPT !.joystickTouch = changedTouches[1].identifier],
                               changedTouches[1])
          EXCEPT !.joystick.active = TRUE]

\* The first of the changed touches with the tracked identifier (0: none).
Tracked(v, changedTouches) ==
  LET idx == {i \in 1..Len(changedTouches) :
                changedTouches[i].identifier = v.joystickTouch}
  IN  IF idx = {} THEN 0 ELSE CHOOSE i \in idx : \A j \in idx : i <= j

OnJoystickMove(v, changedTouches) ==
  IF v.joystickTouch = NoTouch THEN v
  ELSE IF Tracked(v, changedTouches) = 0 THEN v
  ELSE UpdateJoystickPosition(v, changedTouches[Tracked(v, changedTouches)])

OnJoystickEnd(v, changedTouches) ==
  IF Tracked(v, changedTouches) = 0 THEN v
  ELSE [v EXCEPT !.joystickTouch = NoTouch,
                 !.joystick = [x |-> 0, y |-> 0, magnitude |-> 0, active |-> FALSE]]

\* The touchstart listener of a button, and its touchend / touchcancel one.
OnButtonStart(v, name) == [v EXCEPT !.buttons[name] = TRUE]

OnButtonEnd(v, name) == [v EXCEPT !.buttons[name] = FALSE]

CreateUI(v) ==
  [v EXCEPT !.container = TRUE, !.containers = @ + 1, !.listeners = 0]

SetupEventListeners(v) == [v EXCEPT !.listeners = @ + 1]

RemoveUI(v) ==
  IF v.container THEN [v EXCEPT !.container = FALSE, !.containers = @ - 1] ELSE v

Enable(v) ==
  IF v.enabled THEN v
  ELSE SetupEventListeners(CreateUI([v EXCEPT !.enabled = TRUE]))

Disable(v) ==
  IF ~v.enabled THEN v ELSE RemoveUI([v EXCEPT !.enabled = FALSE])

GetInput(v) ==
  [x |-> v.joystick.x, y |-> v.joystick.y, magnitude |-> v.joystick.magnitude,
   crossButton |-> v.buttons.cross, circleButton |-> v.buttons.circle,
   triangleButton |-> v.buttons.triangle, squareButton |-> v.buttons.square]

\* Mutant of UpdatePreviousState: the square button is not copied.
UpdatePreviousStateSkipsSquare(v) ==
  [v EXCEPT !.previousButtons = [v.buttons EXCEPT !.square = v.previousButtons.square],
            !.atLastUpdate = v.buttons]

UpdatePreviousState(v) ==
  [v EXCEPT !.previousButtons = v.buttons, !.atLastUpdate = v.buttons]

WasButtonJustPressed(v, buttonName) ==
  v.buttons[buttonName] /\ ~v.previousButtons[buttonName]

\* ------------------------------------------------------------------ Init
InitRecorder(hosts) ==
  /\ host \in hosts
  /\ rec = Constructor(host)
  /\ clock = [time |-> 0, duration |-> 1]
  /\ run = [r \in Runs |-> NewRun]
  /\ rafQueue = <<>>
  /\ running = <<>>
  /\ calls = 0
  /\ lastCall = "none"
  /\ obs = [r \in Runs |-> NewObs]

InitWith(hosts) ==
  /\ InitRecorder(hosts)
  /\ app = AppStart(0)
  /\ vc = NewVirtualController

Init == InitWith(SomeHosts)

\* -------------------------------------------------------- external calls
\* No frame is in progress: the host runs the callbacks of a frame back to
\* back, and every other handler between frames.
Idle == running = <<>>

\* What a behaviour has spent of MaxWork: one per external call, two per
\* recordAnimation invocation.
Work == calls + 2 * Cardinality({r \in Runs : run[r].pc # "idle"})

CallStartRecordingWithin(budget) ==
  /\ Idle /\ Work + 1 <= budget
  /\ rec' = StartRecording(rec)
  /\ calls' = calls + 1
  /\ lastCall' = "startRecording"
  /\ UNCHANGED <<app, vc>>
  /\ UNCHANGED <<host, clock, run, rafQueue, running, obs>>

CallStartRecording == CallStartRecordingWithin(MaxWork)

CallStopRecordingWithin(budget) ==
  /\ Idle /\ Work + 1 <= budget
  /\ rec' = StopRecording(rec)
  /\ calls' = calls + 1
  /\ lastCall' = "stopRecording"
  /\ UNCHANGED <<app, vc>>
  /\ UNCHANGED <<host, clock, run, rafQueue, running, obs>>

CallStopRecording == CallStopRecordingWithin(MaxWork)

CallToggleRecording ==
  /\ Idle /\ Work + 1 <= MaxWork
  /\ rec' = ToggleRecording(rec)
  /\ calls' = calls + 1
  /\ lastCall' = "toggleRecording"
  /\ UNCHANGED <<app, vc>>
  /\ UNCHANGED <<host, clock, run, rafQueue, running, obs>>

KeyDown(e) ==
  /\ Idle /\ Work + 1 <= MaxWork
  /\ rec' = OnKeyDown(rec, e)
  /\ calls' = calls + 1
  /\ lastCall' = KeyName(e)
  /\ UNCHANGED <<app, vc>>
  /\ UNCHANGED <<host, clock, run, rafQueue, running, obs>>

\* setGVRM(gvrm) with an avatar whose fileName and character.animationUrl
\* are the given strings.
SetGVRMTo(fileName, animationUrl) ==
  /\ Idle /\ ~rec.gvrm
  /\ rec' = [rec EXCEPT !.gvrm = TRUE, !.fileName = fileName,
                        !.animationUrl = animationUrl]
  /\ UNCHANGED lastCall
  /\ UNCHANGED <<app, vc>>
  /\ UNCHANGED <<host, clock, run, rafQueue, running, calls, obs>>

\* The avatar attached under Spec: a/sample1.gvrm playing a/Idle.fbx.
SampleFileName == <<"a", "/", "s", "a", "m", "p", "l", "e", "1", ".", "g", "v", "r", "m">>
SampleAnimationUrl == <<"a", "/", "I", "d", "l", "e", ".", "f", "b", "x">>

SetGVRM == SetGVRMTo(SampleFileName, SampleAnimationUrl)

\* The 2 s timer armed by showPopup(message, false) expires.
TimerFire ==
  /\ Idle /\ rec.timers > 0
  /\ rec' = [HidePopup(rec) EXCEPT !.timers = @ - 1]
  /\ UNCHANGED lastCall
  /\ UNCHANGED <<app, vc>>
  /\ UNCHANGED <<host, clock, run, rafQueue, running, calls, obs>>

\* The capture facility delivers the next queued event.
FireDataAvailable(size) ==
  /\ Idle /\ rec.events # <<>> /\ Head(rec.events).type = "dataavailable"
  /\ rec' = [OnDataAvailable(rec, Head(rec.events).session, size)
               EXCEPT !.events = Tail(@)]
  /\ UNCHANGED lastCall
  /\ UNCHANGED <<app, vc>>
  /\ UNCHANGED <<host, clock, run, rafQueue, running, calls, obs>>

FireStop ==
  /\ Idle /\ rec.events # <<>> /\ Head(rec.events).type = "stop"
  /\ rec' = [OnStop(rec) EXCEPT !.events = Tail(@)]
  /\ run' = IF ResolvedBy(rec) # 0
              THEN [run EXCEPT ![ResolvedBy(rec)].resolved = TRUE]
              ELSE run
  /\ UNCHANGED lastCall
  /\ UNCHANGED <<app, vc>>
  /\ UNCHANGED <<host, clock, rafQueue, running, calls, obs>>

\* --------------------------------------------------------- recordAnimation
\* Mutant of ReturnsAtOnce: the guard without `!this.gvrm`.
ReturnsAtOnceNoGvrmCheck(s) == ~s.isSupported

\* The guard of recordAnimation: `!this.isSupported || !this.gvrm`.
ReturnsAtOnce(s) == ~s.isSupported \/ ~s.gvrm

\* recordAnimation(animationUrl) up to its first await.
RecordAnimationCall(r, budget) ==
  /\ Idle /\ run[r].pc = "idle" /\ Work + 2 <= budget
  /\ \A q \in Runs : q < r => run[q].pc # "idle"
  /\ run' = IF ReturnsAtOnce(rec)
              THEN [run EXCEPT ![r].pc = "returned", ![r].resolved = TRUE]
              ELSE [run EXCEPT ![r].pc = "awaiting"]
  /\ UNCHANGED lastCall
  /\ UNCHANGED <<app, vc>>
  /\ UNCHANGED <<host, rec, clock, rafQueue, running, calls, obs>>

\* recordAnimation after `await this.gvrm.changeFBX(animationUrl, true)`: the
\* avatar plays a clip of `duration` ticks and its clock stands at `time`; the
\* promise executor stores resolve, initialises the flags and registers
\* frameCallback.
RecordAnimationResume(r, duration, time) ==
  /\ Idle /\ run[r].pc = "awaiting"
  /\ clock' = [time |-> time, duration |-> duration]
  /\ rec' = [rec EXCEPT !.currentRecordingResolve = r]
  /\ run' = [run EXCEPT ![r] = [NewRun EXCEPT !.pc = "polling",
                                              !.animationDuration = duration]]
  /\ rafQueue' = Append(rafQueue, Poll(r))
  /\ obs' = [obs EXCEPT ![r].frameStartPhase = 1]
  /\ UNCHANGED lastCall
  /\ UNCHANGED <<app, vc>>
  /\ UNCHANGED <<host, running, calls>>

\* Mutants of FrameCallback.  "stopOnCount": the stop test drops the look-ahead
\* condition; "offByOne": the settle test is `frameCount2 >= 5`; "skipArmed":
\* the start branch sets recording2Started as well; "noLookAhead": both tests
\* compare `time >= animationDuration`.
FrameCallbackBug(c, time, bug) ==
  LET cond == IF bug = "noLookAhead" THEN time >= c.animationDuration
              ELSE time + LookAhead >= c.animationDuration
      c1 == IF ~c.recording1Started
              THEN (IF cond
                      THEN [c EXCEPT !.recording1Started = TRUE,
                                     !.recording2Started = (bug = "skipArmed")]
                      ELSE c)
            ELSE IF ~c.recording2Started
              THEN [c EXCEPT !.recording2Started = TRUE]
            ELSE [c EXCEPT !.frameCount2 = @ + 1]
      settled == IF bug = "offByOne" THEN c1.frameCount2 >= settleThreshold
                 ELSE c1.frameCount2 > settleThreshold
  IN  [closure |-> c1,
       start   |-> ~c.recording1Started /\ cond,
       stop    |-> c.recording1Started /\ c.recording2Started
                   /\ (cond \/ bug = "stopOnCount") /\ settled,
       again   |-> ~c1.recordingFinished]

FrameCallbackStopOnCount(c, time) == FrameCallbackBug(c, time, "stopOnCount")

FrameCallbackOffByOne(c, time) == FrameCallbackBug(c, time, "offByOne")

FrameCallbackSkipArmed(c, time) == FrameCallbackBug(c, time, "skipArmed")

FrameCallbackNoLookAhead(c, time) == FrameCallbackBug(c, time, "noLookAhead")

\* One call of frameCallback on the closure c with the clock at `time`: the
\* closure afterwards, and whether it called startRecording, registered the
\* deferred stopRecording and registered itself again.
FrameCallback(c, time) ==
  LET cond == LookAheadHolds(time, c.animationDuration)
      c1 == IF ~c.recording1Started
              THEN (IF cond THEN [c EXCEPT !.recording1Started = TRUE] ELSE c)
            ELSE IF ~c.recording2Started
              THEN [c EXCEPT !.recording2Started = TRUE]
            ELSE [c EXCEPT !.frameCount2 = @ + 1]
  IN  [closure |-> c1,
       start   |-> ~c.recording1Started /\ cond,
       stop    |-> c.recording1Started /\ c.recording2Started
                   /\ cond /\ c1.frameCount2 > settleThreshold,
       again   |-> ~c1.recordingFinished]

\* The host starts a frame: the animate loop advances the avatar's clock by
\* `step` ticks (looping at the clip's end) and the callbacks registered for
\* this frame are about to run in registration order.
AdvanceClock(k, step) == [k EXCEPT !.time = (k.time + step) % k.duration]

FrameBegin(step, cap) ==
  /\ Idle
  /\ \A r \in Runs : obs[r].stopFrame < 0 => obs[r].framesSinceStart < cap
  /\ clock' = IF rec.gvrm THEN AdvanceClock(clock, step) ELSE clock
  /\ running' = rafQueue
  /\ rafQueue' = <<>>
  /\ obs' = [r \in Runs |->
               [obs[r] EXCEPT
                  !.framesSinceStart =
                     IF @ >= 0 /\ obs[r].stopFrame < 0 THEN @ + 1 ELSE @,
                  !.frameStartPhase =
                     IF run[r].pc = "polling" THEN PhaseOf(run[r]) ELSE @,
                  !.wraps =
                     IF obs[r].startCalls > 0 THEN 0
                     ELSE IF /\ run[r].pc = "polling" /\ rec.gvrm /\ step > 0
                             /\ clock.time + step >= clock.duration /\ @ < 2
                     THEN @ + 1 ELSE @]]
  /\ UNCHANGED lastCall
  /\ UNCHANGED <<app, vc>>
  /\ UNCHANGED <<host, rec, run, calls>>

\* Mutant of RunFrameCallback: frameCallback registers itself before the
\* deferred stopRecording.
RunFrameCallbackPollFirst(r) ==
  /\ running # <<>> /\ Head(running) = Poll(r)
  /\ LET f == FrameCallback(run[r], clock.time)
     IN  /\ run' = [run EXCEPT ![r] = f.closure]
         /\ rec' = IF f.start THEN StartRecording(rec) ELSE rec
         /\ rafQueue' = rafQueue \o (IF f.again THEN <<Poll(r)>> ELSE <<>>)
                                 \o (IF f.stop THEN <<Stop(r)>> ELSE <<>>)
         /\ obs' = [obs EXCEPT
                      ![r].startCalls = IF f.start THEN @ + 1 ELSE @,
                      ![r].framesSinceStart = IF f.start THEN 0 ELSE @,
                      ![r].stopsScheduled = IF f.stop THEN @ + 1 ELSE @,
                      ![r].schedFrame =
                         IF f.stop /\ @ < 0 THEN obs[r].framesSinceStart ELSE @]
  /\ running' = Tail(running)
  /\ UNCHANGED <<host, clock, calls, lastCall>>
  /\ UNCHANGED <<app, vc>>

\* The next callback of the frame in progress is frameCallback of run r.
RunFrameCallback(r) ==
  /\ running # <<>> /\ Head(running) = Poll(r)
  /\ LET f == FrameCallback(run[r], clock.time)
     IN  /\ run' = [run EXCEPT ![r] = f.closure]
         /\ rec' = IF f.start THEN StartRecording(rec) ELSE rec
         /\ rafQueue' = rafQueue \o (IF f.stop THEN <<Stop(r)>> ELSE <<>>)
                                 \o (IF f.again THEN <<Poll(r)>> ELSE <<>>)
         /\ obs' = [obs EXCEPT
                      ![r].startCalls = IF f.start THEN @ + 1 ELSE @,
                      ![r].framesSinceStart = IF f.start THEN 0 ELSE @,
                      ![r].stopsScheduled = IF f.stop THEN @ + 1 ELSE @,
                      ![r].schedFrame =
                         IF f.stop /\ @ < 0 THEN obs[r].framesSinceStart ELSE @]
  /\ running' = Tail(running)
  /\ UNCHANGED lastCall
  /\ UNCHANGED <<app, vc>>
  /\ UNCHANGED <<host, clock, calls>>

\* Mutant of RunDeferredStop: the deferred callback resolves the promise
\* itself instead of leaving it to onstop.
RunDeferredStopResolves(r) ==
  /\ running # <<>> /\ Head(running) = Stop(r)
  /\ rec' = StopRecording(rec)
  /\ run' = [run EXCEPT ![r].recordingFinished = TRUE, ![r].resolved = TRUE]
  /\ obs' = [obs EXCEPT ![r].stopFrame =
                          IF @ < 0 THEN obs[r].framesSinceStart ELSE @]
  /\ running' = Tail(running)
  /\ UNCHANGED <<host, clock, rafQueue, calls, lastCall>>
  /\ UNCHANGED <<app, vc>>

\* The next callback of the frame in progress is the deferred
\* `() => { this.stopRecording(); recordingFinished = true; }` of run r.
RunDeferredStop(r) ==
  /\ running # <<>> /\ Head(running) = Stop(r)
  /\ rec' = StopRecording(rec)
  /\ run' = [run EXCEPT ![r].recordingFinished = TRUE]
  /\ obs' = [obs EXCEPT ![r].stopFrame =
                          IF @ < 0 THEN obs[r].framesSinceStart ELSE @]
  /\ running' = Tail(running)
  /\ UNCHANGED lastCall
  /\ UNCHANGED <<app, vc>>
  /\ UNCHANGED <<host, clock, rafQueue, calls>>

\* ------------------------------------------------------------ specification
Next ==
  \/ CallStartRecording
  \/ CallStopRecording
  \/ CallToggleRecording
  \/ \E e \in KeyEvents : KeyDown(e)
  \/ SetGVRM
  \/ TimerFire
  \/ \E size \in {0, 1} : FireDataAvailable(size)
  \/ FireStop
  \/ \E r \in Runs : RecordAnimationCall(r, MaxWork)
  \/ \E r \in Runs, d \in 1..MaxDuration :
       \E t \in 0..(d - 1) : RecordAnimationResume(r, d, t)
  \/ \E step \in 0..MaxStep : FrameBegin(step, MaxFrames)
  \/ \E r \in Runs : RunFrameCallback(r)
  \/ \E r \in Runs : RunDeferredStop(r)

Spec == Init /\ [][Next]_vars

\* The looping clock that advances by exactly one tick per rendered frame,
\* one recordAnimation run, no external start/stop/toggle call.
NextTick ==
  \/ SetGVRM
  \/ TimerFire
  \/ \E size \in {0, 1} : FireDataAvailable(size)
  \/ FireStop
  \/ RecordAnimationCall(1, 2)
  \/ \E d \in 1..MaxTickDuration :
       \E t \in 0..(d - 1) : RecordAnimationResume(1, d, t)
  \/ FrameBegin(1, MaxTickFrames)
  \/ RunFrameCallback(1)
  \/ RunDeferredStop(1)

SpecTick == Init /\ [][NextTick]_vars

\* One recordAnimation run with a clock that advances by at most the
\* look-ahead per rendered frame, and no external start/stop/toggle call.
NextStep ==
  \/ SetGVRM
  \/ TimerFire
  \/ \E size \in {0, 1} : FireDataAvailable(size)
  \/ FireStop
  \/ RecordAnimationCall(1, 2)
  \/ \E d \in 1..MaxTickDuration :
       \E t \in 0..(d - 1) : RecordAnimationResume(1, d, t)
  \/ \E step \in 0..LookAhead : FrameBegin(step, MaxTickFrames)
  \/ RunFrameCallback(1)
  \/ RunDeferredStop(1)

SpecStep == Init /\ [][NextStep]_vars

\* The one-tick clock with recordAnimation invoked at any time, also while an
\* earlier run is outstanding, and no external start/stop/toggle call.
NextOverlap ==
  \/ SetGVRM
  \/ TimerFire
  \/ \E size \in {0, 1} : FireDataAvailable(size)
  \/ FireStop
  \/ \E r \in Runs : RecordAnimationCall(r, 2 * MaxRuns)
  \/ \E r \in Runs, d \in 1..MaxDuration :
       \E t \in 0..(d - 1) : RecordAnimationResume(r, d, t)
  \/ FrameBegin(1, MaxTickFrames)
  \/ \E r \in Runs : RunFrameCallback(r)
  \/ \E r \in Runs : RunDeferredStop(r)

SpecOverlap == Init /\ [][NextOverlap]_vars

\* ---------------------------------------------------------------- claims
\* What the claims observe of a step.
PollStep(r) ==
  running # <<>> /\ Head(running) = Poll(r) /\ running' = Tail(running)

NumStops(q, r) == Cardinality({i \in 1..Len(q) : q[i] = Stop(r)})

OnStopStep ==
  /\ rec.events # <<>> /\ Head(rec.events).type = "stop"
  /\ rec'.events = Tail(rec.events)
  /\ rec'.download.chunks = rec.recordedChunks
  /\ rec'.download.ext # "none"

\* A run whose polling loop has not reached Done.
Active(r) == run[r].pc = "polling" /\ ~run[r].recordingFinished

\* Nothing is scheduled or in flight: no frame callback, no capture event, no
\* recordAnimation between its awaits, no capture in progress.
Quiescent ==
  /\ running = <<>> /\ rafQueue = <<>> /\ rec.events = <<>> /\ ~rec.isRecording
  /\ \A r \in Runs : run[r].pc # "awaiting"

\* C1 as stated: for every clip duration D >= 1 the first deferred
\* stopRecording of a run executes D + 1 frames after the frame on which the
\* run called startRecording.
C1_OneLoopForEveryDuration ==
  \A r \in Runs :
    obs[r].stopFrame >= 0 => obs[r].stopFrame = run[r].animationDuration + 1

\* C1 amended: for every clip duration D with D - 1 > settleThreshold
\* (D >= 7 ticks) the first deferred stopRecording of a run executes D + 1
\* frames after the frame on which the run called startRecording: one loop
\* plus the deferred stop frame.
C1_OneLoopFromSevenTicks ==
  \A r \in Runs :
    (obs[r].stopFrame >= 0 /\ run[r].animationDuration - 1 > settleThreshold)
      => obs[r].stopFrame = run[r].animationDuration + 1

C1_Witness ==
  \E r \in Runs :
    /\ run[r].animationDuration = 7
    /\ obs[r].stopFrame = 8
    /\ rec.download.ext # "none"

\* C2: a run's state machine calls startRecording in a frameCallback exactly
\* when it has not called it before and the look-ahead condition
\* time + 1/60 >= animationDuration holds (so on the first polled frame with
\* the condition, on no earlier frame, and never a second time), and no other
\* step is a call of startRecording by the state machine.
C2_StartOnFirstLookAhead ==
  [][\A r \in Runs :
       /\ PollStep(r) =>
            ((obs'[r].startCalls = obs[r].startCalls + 1)
               <=> (obs[r].startCalls = 0
                    /\ clock.time + LookAhead >= run[r].animationDuration))
       /\ PollStep(r) => obs'[r].startCalls \in {obs[r].startCalls, obs[r].startCalls + 1}
       /\ ~PollStep(r) => obs'[r].startCalls = obs[r].startCalls]_vars

C2_Witness ==
  \E r \in Runs :
    /\ obs[r].startCalls = 1 /\ obs[r].framesSinceStart >= 2
    /\ run[r].animationDuration = 2
    /\ rec.isRecording

\* C3: the deferred stopRecording is registered only in a frameCallback that
\* sees the look-ahead condition with the settle counter above 5, and never
\* earlier than settleThreshold + 2 = 7 frames after the frame of the run's
\* startRecording call.
C3_StopScheduledAfterSettle ==
  [][\A r \in Runs :
       NumStops(rafQueue', r) > NumStops(rafQueue, r) =>
         /\ PollStep(r)
         /\ clock.time + LookAhead >= run[r].animationDuration
         /\ run'[r].frameCount2 > settleThreshold
         /\ obs[r].framesSinceStart >= settleThreshold + 2]_vars

C3_Witness ==
  \E r \in Runs :
    /\ obs[r].schedFrame = settleThreshold + 2
    /\ NumStops(rafQueue, r) = 1

\* C4: the promise of a run that went past the guard of recordAnimation is
\* resolved only by a step of mediaRecorder.onstop, which has assembled and
\* downloaded the chunks.
C4_ResolvedOnlyByOnStop ==
  [][\A r \in Runs :
       (run[r].pc # "idle" /\ run'[r].resolved /\ ~run[r].resolved) => OnStopStep]_vars

C4_Witness ==
  \E r \in Runs :
    /\ run[r].pc = "polling" /\ run[r].resolved
    /\ rec.download.ext # "none"

\* C5 as stated, in the form a finite run refutes: once nothing is scheduled
\* or in flight any more, every run that went past the guard has reached Done
\* and its promise is resolved (no external toggleRecording call, one-tick
\* clock).
C5_EveryRunDoneAndResolved ==
  \A r \in Runs :
    (Quiescent /\ run[r].pc = "polling")
      => (run[r].recordingFinished /\ run[r].resolved)

\* C6: while a run polls, a step leaves its phase or moves it to the next
\* one, and a frame moves it by at most one phase.
C6_PhaseForwardOneStep ==
  [][\A r \in Runs :
       (run[r].pc = "polling" /\ run'[r].pc = "polling") =>
         /\ PhaseOf(run'[r]) \in {PhaseOf(run[r]), PhaseOf(run[r]) + 1}
         /\ PhaseOf(run'[r]) - obs'[r].frameStartPhase \in {0, 1}]_vars

C6_Witness ==
  \E r \in Runs :
    /\ run[r].pc = "polling" /\ PhaseOf(run[r]) = 4
    /\ obs[r].frameStartPhase = 3

\* C7 as stated: at most one recordAnimation run is active.
C7_AtMostOneActiveRun ==
  Cardinality({r \in Runs : Active(r)}) <= 1

\* C8: an external startRecording call made while recording and an external
\* stopRecording call made while not recording change nothing of the Recorder
\* (no capture start/stop, no popup shown or hidden, no timer); a matching
\* call on a supported controller flips isRecording.
C8_MismatchedCallIsNoOp ==
  [][/\ (calls' = calls + 1 /\ lastCall' = "startRecording") =>
          IF rec.isRecording THEN rec' = rec
          ELSE rec.isSupported => rec'.isRecording
     /\ (calls' = calls + 1 /\ lastCall' = "stopRecording") =>
          IF ~rec.isRecording THEN rec' = rec
          ELSE rec.isSupported => ~rec'.isRecording]_vars

C8_Witness ==
  /\ calls = 2 /\ lastCall = "startRecording"
  /\ rec.isRecording /\ rec.mrStarts = 1 /\ rec.mrStops = 0
  /\ \A r \in Runs : run[r].pc = "idle"

\* C9: isRecording implies isSupported, and an unsupported controller never
\* records, never invokes the capture facility and never shows a popup.
C9_RecordingImpliesSupported ==
  /\ rec.isRecording => rec.isSupported
  /\ ~rec.isSupported =>
       /\ ~rec.isRecording
       /\ rec.mrStarts = 0 /\ rec.mrStops = 0 /\ rec.mrState = "inactive"
       /\ rec.events = <<>>
       /\ rec.popup = "none" /\ rec.timers = 0

C9_Witness ==
  /\ ~rec.isSupported /\ host.mediaRecorder
  /\ calls = 3 /\ lastCall = "startRecording"

\* C10: recordAnimation on an unsupported controller or without an avatar
\* returns a resolved promise and changes nothing else: no animation switch,
\* no frame callback, no capture, no pending resolve function.
C10_NoOpWithoutSupportOrAvatar ==
  [][\A r \in Runs :
       (run[r].pc = "idle" /\ run'[r].pc # "idle"
        /\ (~rec.isSupported \/ ~rec.gvrm)) =>
          /\ run'[r] = [NewRun EXCEPT !.pc = "returned", !.resolved = TRUE]
          /\ UNCHANGED <<rec, clock, rafQueue, running>>]_vars

C10_Witness ==
  \E r \in Runs :
    /\ run[r].pc = "returned" /\ run[r].resolved
    /\ rec.isSupported /\ ~rec.gvrm

\* ---------------------------------------------------------------- codecs
\* Every host: each combination of window.MediaRecorder and of the three
\* answers of isTypeSupported; the controller is started, stopped and toggled,
\* and its capture finalized, with no avatar attached.
InitCodec == InitWith(Hosts)

NextCodec ==
  \/ CallStartRecording
  \/ CallStopRecording
  \/ CallToggleRecording
  \/ TimerFire
  \/ \E size \in {0, 1} : FireDataAvailable(size)
  \/ FireStop

SpecCodec == InitCodec /\ [][NextCodec]_vars

\* The preferred ordered list of codecs and the first entry a host supports.
PreferenceOrder == <<"video/mp4", "video/webm;codecs=h264", "video/webm">>

HighestPreference(types) ==
  LET idx == {i \in 1..Len(PreferenceOrder) : PreferenceOrder[i] \in types}
  IN  PreferenceOrder[CHOOSE i \in idx : \A j \in idx : i <= j]

\* C13 as stated: on every host with an encoder and at least one supported
\* codec the negotiated codec is the highest-preference supported entry, and a
\* produced file has extension mp4 when the MP4 container is supported and
\* webm otherwise.
C13_HighestPreferenceNegotiated ==
  (host.mediaRecorder /\ host.types # {}) =>
    /\ rec.mimeType = HighestPreference(host.types)
    /\ rec.download.ext # "none" =>
         rec.download.ext = (IF "video/mp4" \in host.types THEN "mp4" ELSE "webm")

\* C14 as stated: capabilitySupported is true exactly when the encoder is
\* available and at least one codec of the list is supported.
C14_SupportedIffSomeCodec ==
  rec.isSupported <=> (host.mediaRecorder /\ host.types # {})

\* C11: on a supported controller a toggleRecording call flips isRecording,
\* starting the capture when it was off and stopping it when it was on; two
\* consecutive toggles restore isRecording and invoke the capture facility's
\* start and stop once each.
C11_ToggleFlips ==
  [][(calls' = calls + 1 /\ lastCall' = "toggleRecording" /\ rec.isSupported) =>
       /\ rec'.isRecording = ~rec.isRecording
       /\ rec'.mrStarts = rec.mrStarts + (IF rec.isRecording THEN 0 ELSE 1)
       /\ rec'.mrStops = rec.mrStops + (IF rec.isRecording THEN 1 ELSE 0)
       /\ ToggleRecording(rec').isRecording = rec.isRecording
       /\ ToggleRecording(rec').mrStarts = rec.mrStarts + 1
       /\ ToggleRecording(rec').mrStops = rec.mrStops + 1]_vars

C11_Witness ==
  /\ calls = 2 /\ lastCall = "toggleRecording"
  /\ rec.isSupported /\ ~rec.isRecording
  /\ rec.mrStarts = 1 /\ rec.mrStops = 1
  /\ \A r \in Runs : run[r].pc = "idle"

\* C12 as stated: whenever isRecording is true the recording indicator is
\* displayed.
C12_IndicatorWhileRecording ==
  rec.isRecording => rec.popup = "recording"

\* --------------------------------------------------------------- filenames
\* Every avatar path and animation path over a letter, the dot and the
\* slash: the controller on a host that supports every type, an avatar
\* attached at any moment, captures started, stopped and finalized.
PathChars == {"a", ".", "/"}

PathsUpTo(n) == UNION {[1..k -> PathChars] : k \in 0..n}

InitFile == InitWith({h \in Hosts : h.mediaRecorder /\ h.types = MimeTypes})

NextFile ==
  \/ /\ ~rec.gvrm
     /\ \E f \in PathsUpTo(MaxPathLen), u \in PathsUpTo(MaxUrlLen) : SetGVRMTo(f, u)
  \/ CallStartRecording
  \/ CallStopRecording
  \/ \E size \in {0, 1} : FireDataAvailable(size)
  \/ FireStop

SpecFile == InitFile /\ [][NextFile]_vars

\* The name of a file without its directory (everything up to the last slash)
\* and without its extension (the last dot and what follows it).
LastIndexOf(str, c) ==
  LET idx == {i \in 1..Len(str) : str[i] = c}
  IN  IF idx = {} THEN 0 ELSE CHOOSE i \in idx : \A j \in idx : j <= i

StripDirectory(path) == SubSeq(path, LastIndexOf(path, "/") + 1, Len(path))

StripExtension(name) ==
  IF LastIndexOf(name, ".") = 0 THEN name
  ELSE SubSeq(name, 1, LastIndexOf(name, ".") - 1)

Stripped(path) == StripExtension(StripDirectory(path))

\* C15 as stated: the file produced by a finalization is named 'recording'
\* with no avatar, 'recording_<avatar>' with an avatar and no animation, and
\* 'recording_<avatar>_<animation>' with both, each name being the path
\* without its directory and extension, also when it has more than one dot.
C15_FileNameStripsDirectoryAndExtension ==
  [][OnStopStep =>
       rec'.download.filename =
         (IF ~rec.gvrm \/ rec.fileName = <<>> THEN <<"recording">>
          ELSE IF rec.animationUrl = <<>>
               THEN <<"recording", "_">> \o Stripped(rec.fileName)
               ELSE <<"recording", "_">> \o Stripped(rec.fileName) \o <<"_">>
                      \o Stripped(rec.animationUrl))]_vars

\* The same for names with at most one dot, which holds.
SingleDotFileNames ==
  [][(OnStopStep /\ rec.gvrm /\ rec.fileName # <<>>
        /\ Len(Split(StripDirectory(rec.fileName), ".")) <= 2
        /\ Len(Split(StripDirectory(rec.animationUrl), ".")) <= 2) =>
       rec'.download.filename =
         (IF rec.animationUrl = <<>>
          THEN <<"recording", "_">> \o Stripped(rec.fileName)
          ELSE <<"recording", "_">> \o Stripped(rec.fileName) \o <<"_">>
                 \o Stripped(rec.animationUrl))]_vars

\* C16 as stated: a key press toggles exactly when it is R with no modifier;
\* R with Ctrl, Alt, Meta or Shift, and any other key, leaves isRecording as
\* it was.
C16_UnmodifiedOnly ==
  [][\A e \in KeyEvents :
       (calls' = calls + 1 /\ lastCall' = KeyName(e) /\ rec.isSupported) =>
         rec'.isRecording =
           (IF ToLowerCase(e.key) = "r" /\ ~e.ctrlKey /\ ~e.altKey /\ ~e.metaKey
               /\ ~e.shiftKey
            THEN ~rec.isRecording ELSE rec.isRecording)]_vars

\* C16: a key press toggles exactly when it is R (either case) with none of
\* Ctrl, Alt and Meta held, whatever the state of Shift; R with Ctrl, Alt or
\* Meta, and any other key, leaves the controller as it was.
C16_ToggleUnlessCtrlAltMeta ==
  [][\A e \in KeyEvents :
       (calls' = calls + 1 /\ lastCall' = KeyName(e)) =>
         IF e.key \in {"r", "R"} /\ ~e.ctrlKey /\ ~e.altKey /\ ~e.metaKey
         THEN /\ rec' = ToggleRecording(rec)
              /\ rec.isSupported => rec'.isRecording = ~rec.isRecording
         ELSE rec' = rec]_vars

C16_Witness ==
  /\ calls = 1 /\ rec.isSupported /\ rec.isRecording
  /\ lastCall = "keydown Shift+R" /\ rec.mrStarts = 1 /\ rec.mrStops = 0

\* C17 as stated: the promise of a run that went past the guard is resolved
\* only after the run's state machine has called startRecording and its
\* deferred stopRecording has executed.
C17_ResolvedAfterOwnCapture ==
  \A r \in Runs :
    (run[r].pc = "polling" /\ run[r].resolved)
      => (obs[r].startCalls >= 1 /\ obs[r].stopFrame >= 0)

\* C18 as stated: while a run is in phase ArmedAfterStart or
\* CountingSettleFrames, isRecording is true.
C18_RecordingWhileArmedOrCounting ==
  \A r \in Runs :
    (run[r].pc = "polling" /\ PhaseOf(run[r]) \in {2, 3}) => rec.isRecording

\* C19 as stated: once a run has registered its deferred stopRecording, no
\* later frameCallback of the run increments the settle counter or registers
\* another stopRecording.
C19_NoPollingAfterScheduling ==
  [][\A r \in Runs :
       (PollStep(r) /\ obs[r].stopsScheduled >= 1) =>
         /\ run'[r].frameCount2 = run[r].frameCount2
         /\ NumStops(rafQueue', r) = NumStops(rafQueue, r)]_vars

\* C20: the deferred stopRecording registered by the counting phase executes
\* in the frame right after the frame that registered it, before that
\* frame's frameCallback of the run.
C20_StopRunsNextFrameBeforePoll ==
  \A r \in Runs :
    /\ obs[r].stopFrame >= 0 => obs[r].stopFrame = obs[r].schedFrame + 1
    /\ (obs[r].schedFrame >= 0 /\ obs[r].stopFrame < 0) =>
         \/ obs[r].framesSinceStart = obs[r].schedFrame
              /\ NumStops(rafQueue, r) = 1 /\ NumStops(running, r) = 0
         \/ /\ obs[r].framesSinceStart = obs[r].schedFrame + 1
            /\ \E i \in 1..Len(running) :
                 /\ running[i] = Stop(r)
                 /\ \E j \in (i + 1)..Len(running) : running[j] = Poll(r)
                 /\ \A j \in 1..i : running[j] # Poll(r)

C20_Witness ==
  \E r \in Runs :
    /\ obs[r].stopFrame = obs[r].schedFrame + 1 /\ obs[r].schedFrame >= 0
    /\ running = <<Poll(r)>>

\* C21: a step of mediaRecorder.onstop assembles and downloads the buffered
\* chunks, empties the buffer and leaves the slot currentRecordingResolve
\* empty; with no pending resolve function it resolves nothing, with a
\* pending one it resolves that run's unresolved promise and no other.
C21_OnStopToleratesEmptySlot ==
  [][(rec.events # <<>> /\ Head(rec.events).type = "stop"
        /\ rec'.events = Tail(rec.events)) =>
       /\ rec'.download.chunks = rec.recordedChunks
       /\ rec'.download.ext \in {"mp4", "webm"}
       /\ rec'.recordedChunks = <<>>
       /\ rec'.currentRecordingResolve = 0
       /\ \A r \in Runs :
            IF rec.currentRecordingResolve = r
            THEN ~run[r].resolved /\ run'[r].resolved
            ELSE run'[r] = run[r]]_vars

\* A finalization has fired with no run invoked, and one chunk was saved.
C21_Witness ==
  /\ \A r \in Runs : run[r].pc = "idle"
  /\ rec.mrStops = 1 /\ rec.events = <<>>
  /\ rec.download.ext # "none" /\ rec.download.chunks # <<>>
  /\ rec.recordedChunks = <<>> /\ rec.currentRecordingResolve = 0

\* C22 as stated: a resolve function stored in currentRecordingResolve
\* leaves the slot only by a step of mediaRecorder.onstop, which invokes it.
C22_SlotLeftOnlyByOnStop ==
  [][\A r \in Runs :
       (rec.currentRecordingResolve = r /\ rec'.currentRecordingResolve # r)
         => OnStopStep]_vars

\* ---------------------------------------------------------------- sessions
\* Capture sessions one after the other: startRecording and stopRecording
\* called in any order on a host that supports every type, the capture
\* events and the popup timers firing at any moment in between.
InitSession == InitWith({h \in Hosts : h.mediaRecorder /\ h.types = MimeTypes})

NextSession ==
  \/ CallStartRecordingWithin(MaxSessionCalls)
  \/ CallStopRecordingWithin(MaxSessionCalls)
  \/ TimerFire
  \/ \E size \in {0, 1} : FireDataAvailable(size)
  \/ FireStop

SpecSession == InitSession /\ [][NextSession]_vars

\* C23 as stated: startRecording empties the buffer of captured chunks, and
\* the artifact of a finalization holds chunks of the stopped session only.
C23_StartClearsBuffer ==
  [][/\ (rec'.mrStarts = rec.mrStarts + 1) => rec'.recordedChunks = <<>>
     /\ OnStopStep =>
          \A i \in 1..Len(rec'.download.chunks) :
            rec'.download.chunks[i] = Head(rec.events).session]_vars

\* C23: the artifact of a finalization holds chunks of the stopped session
\* only, and every chunk delivered stays buffered until that finalization:
\* startRecording leaves the buffer the callbacks use as it is (it replaces
\* this.recordedChunks only), and the finalization empties it.
C23_ArtifactOfOneSession ==
  [][/\ OnStopStep =>
          /\ \A i \in 1..Len(rec'.download.chunks) :
               rec'.download.chunks[i] = Head(rec.events).session
          /\ rec'.recordedChunks = <<>>
     /\ ~OnStopStep =>
          /\ Len(rec'.recordedChunks) >= Len(rec.recordedChunks)
          /\ SubSeq(rec'.recordedChunks, 1, Len(rec.recordedChunks)) = rec.recordedChunks
     /\ (rec'.mrStarts = rec.mrStarts + 1) =>
          /\ rec'.recordedChunks = rec.recordedChunks
          /\ rec'.this_recordedChunks = <<>>]_vars

\* The second session's artifact was saved, with its one chunk, after a first
\* session had delivered a chunk of its own.
C23_Witness ==
  /\ rec.mrStops = 2 /\ rec.events = <<>>
  /\ rec.download.chunks = <<2>>

\* C24: with a clock that advances by at most the look-ahead per frame, the
\* clock does not wrap a second time between the start of polling and the
\* frameCallback that calls startRecording (obs[r].wraps counts the wraps of
\* that interval, until the frame after that call).
C24_StartBeforeSecondWrap ==
  \A r \in Runs : obs[r].wraps <= 1

\* A run called startRecording after the clock had wrapped once.
C24_Witness ==
  \E r \in Runs :
    /\ obs[r].startCalls = 1 /\ obs[r].wraps = 1
    /\ run[r].animationDuration > 1

\* C25: at most one popup element is attached to the document, and it is
\* the one this.popup refers to; a showPopup leaves exactly its own popup on
\* display, and after the expiry of a 2 s timer none is displayed.
C25_AtMostOneNotification ==
  [][/\ rec'.domPopups <= 1
     /\ rec'.domPopups = (IF rec'.popup = "none" THEN 0 ELSE 1)
     /\ (rec'.mrStarts = rec.mrStarts + 1) =>
          (rec'.popup = "recording" /\ rec'.domPopups = 1)
     /\ (rec'.mrStops = rec.mrStops + 1) =>
          (rec'.popup = "stopped" /\ rec'.domPopups = 1)
     /\ (rec'.timers = rec.timers - 1) =>
          (rec'.popup = "none" /\ rec'.domPopups = 0)]_vars

\* The recording indicator has replaced a 'stopped' notification whose timer
\* is still pending.
C25_Witness ==
  /\ rec.popup = "recording" /\ rec.domPopups = 1
  /\ rec.timers = 1 /\ rec.mrStarts = 2

\* C26: no step changes isSupported; a step that changes isRecording is the
\* body of startRecording (it calls mediaRecorder.start() and sets the flag)
\* or of stopRecording (it calls mediaRecorder.stop() and clears the flag);
\* the capture callbacks, the popup timers, setGVRM, the start of a frame and
\* a frameCallback that does not call startRecording leave the flag alone.
C26_FlagsChangedOnlyByStartStop ==
  [][/\ rec'.isSupported = rec.isSupported
     /\ (rec'.isRecording # rec.isRecording) =>
          \/ rec'.isRecording /\ rec'.mrStarts = rec.mrStarts + 1
          \/ ~rec'.isRecording /\ rec'.mrStops = rec.mrStops + 1
     /\ (rec.events # <<>> /\ rec'.events = Tail(rec.events)) =>
          rec'.isRecording = rec.isRecording
     /\ (rec'.timers = rec.timers - 1) => rec'.isRecording = rec.isRecording
     /\ (rec'.gvrm # rec.gvrm) => rec'.isRecording = rec.isRecording
     /\ (running = <<>> /\ running' # <<>>) => rec'.isRecording = rec.isRecording
     /\ \A r \in Runs :
          (PollStep(r) /\ ~FrameCallback(run[r], clock.time).start) =>
            rec'.isRecording = rec.isRecording]_vars

\* The finalization of a first session has fired while a second capture was
\* in progress.
C26_Witness ==
  /\ rec.isRecording /\ rec.mrStarts = 2 /\ rec.mrStops = 1
  /\ rec.events = <<>> /\ rec.download.ext # "none"

\* ------------------------------------------------------------ the page
\* The avatar switches of main.js and of setupVR, in any order, with the
\* avatar's isReady and isLoading() changing at any moment.
InitApp ==
  /\ InitRecorder({h \in Hosts : h.mediaRecorder /\ h.types = MimeTypes})
  /\ app \in {AppStart(i) : i \in 0..(NumGvrmFiles - 1)}
  /\ vc = NewVirtualController

KeyG ==
  /\ Len(app.pending) < MaxPending
  /\ app' = OnKeyG(app)
  /\ UNCHANGED <<recorderVars, vc>>

MobileSwitchAvatar ==
  /\ Len(app.pending) < MaxPending
  /\ app' = OnMobileSwitchAvatar(app)
  /\ UNCHANGED <<recorderVars, vc>>

VrButton ==
  /\ app' = OnVrButton(app)
  /\ UNCHANGED <<recorderVars, vc>>

SelectSwitchAvatarPanel ==
  /\ app.vrControllers /\ Len(app.pending) < MaxPending
  /\ app' = OnSelectStart(app)
  /\ UNCHANGED <<recorderVars, vc>>

AwaitRemoveDone ==
  /\ app.pending # <<>>
  /\ app' = ResumeSwitch(app)
  /\ UNCHANGED <<recorderVars, vc>>

AvatarStatus(ready, loading) ==
  /\ app' = [app EXCEPT !.isReady = ready, !.isLoading = loading]
  /\ UNCHANGED <<recorderVars, vc>>

NextApp ==
  \/ KeyG
  \/ MobileSwitchAvatar
  \/ VrButton
  \/ SelectSwitchAvatarPanel
  \/ AwaitRemoveDone
  \/ \E ready \in BOOLEAN, loading \in BOOLEAN : AvatarStatus(ready, loading)

SpecApp == InitApp /\ [][NextApp]_vars

\* C27 as stated: once no switch is waiting to load, the avatar item
\* highlighted in the status list is the avatar requested last.
C27_ActiveItemIsRequested ==
  app.pending = <<>> => app.activeItem = app.requested

\* ------------------------------------------------- the virtual controller
\* enable(), disable() and updatePreviousState() called in any order, with
\* touch events on the joystick area and on the buttons.  A touch starts on
\* the controller's elements only while they are on screen; the move and end
\* events of a touch go to the element it started on.
TouchIds == 0..MaxTouchId

TouchPoints ==
  {<<d, 0>> : d \in {-MaxReach, 0, 50}} \cup {<<0, d>> : d \in {-MaxReach, 0, 50}}

Touches == {[identifier |-> i, dx |-> p[1], dy |-> p[2]] : i \in TouchIds, p \in TouchPoints}

\* The changedTouches of an event: one touch, or two with different identifiers.
TouchEvents ==
  {<<t>> : t \in Touches}
    \cup {e \in {<<t, u>> : t \in Touches, u \in Touches} :
            e[1].identifier # e[2].identifier}

InitVC ==
  /\ InitRecorder({h \in Hosts : h.mediaRecorder /\ h.types = MimeTypes})
  /\ app = AppStart(0)
  /\ vc = NewVirtualController

EnableCall ==
  /\ vc' = Enable(vc)
  /\ UNCHANGED <<recorderVars, app>>

DisableCall ==
  /\ vc' = Disable(vc)
  /\ UNCHANGED <<recorderVars, app>>

JoystickTouchStart(changedTouches) ==
  /\ vc.container
  /\ vc' = OnJoystickStart(vc, changedTouches)
  /\ UNCHANGED <<recorderVars, app>>

JoystickTouchMove(changedTouches) ==
  /\ vc.listeners > 0
  /\ vc' = OnJoystickMove(vc, changedTouches)
  /\ UNCHANGED <<recorderVars, app>>

JoystickTouchEnd(changedTouches) ==
  /\ vc.listeners > 0
  /\ vc' = OnJoystickEnd(vc, changedTouches)
  /\ UNCHANGED <<recorderVars, app>>

ButtonTouchStart(name) ==
  /\ vc.container
  /\ vc' = OnButtonStart(vc, name)
  /\ UNCHANGED <<recorderVars, app>>

ButtonTouchEnd(name) ==
  /\ vc.listeners > 0
  /\ vc' = OnButtonEnd(vc, name)
  /\ UNCHANGED <<recorderVars, app>>

UpdatePreviousStateCall ==
  /\ vc' = UpdatePreviousState(vc)
  /\ UNCHANGED <<recorderVars, app>>

NextVC ==
  \/ EnableCall
  \/ DisableCall
  \/ \E e \in TouchEvents : JoystickTouchStart(e)
  \/ \E e \in TouchEvents : JoystickTouchMove(e)
  \/ \E e \in TouchEvents : JoystickTouchEnd(e)
  \/ \E b \in ButtonNames : ButtonTouchStart(b)
  \/ \E b \in ButtonNames : ButtonTouchEnd(b)
  \/ UpdatePreviousStateCall

SpecVC == InitVC /\ [][NextVC]_vars

\* C28: joystick.active is true exactly when a touch identifier is tracked;
\* with none tracked x, y and magnitude are 0; a touchstart while a touch is
\* tracked, and a touchmove, touchend or touchcancel that does not carry the
\* tracked identifier, leave the controller as it is.
C28_JoystickTracksOneTouch ==
  /\ vc.joystick.active <=> vc.joystickTouch # NoTouch
  /\ vc.joystickTouch = NoTouch =>
       (vc.joystick.x = 0 /\ vc.joystick.y = 0 /\ vc.joystick.magnitude = 0)
  /\ \A e \in TouchEvents :
       /\ vc.joystickTouch # NoTouch => OnJoystickStart(vc, e) = vc
       /\ (\A i \in 1..Len(e) : e[i].identifier # vc.joystickTouch) =>
            (OnJoystickMove(vc, e) = vc /\ OnJoystickEnd(vc, e) = vc)

\* Touch 1 is tracked, beyond the radius to the left of the centre.
C28_Witness ==
  /\ vc.joystickTouch = 1 /\ vc.joystick.active
  /\ vc.joystick.x = -100 /\ vc.joystick.y = 0 /\ vc.joystick.magnitude = 100

\* C29 as stated: the container exists exactly when enabled is true, a
\* repeated enable() or disable() changes nothing, and an enable() that
\* re-creates the UI leaves the joystick free to take a touch with getInput()
\* neutral.
NeutralInput ==
  [x |-> 0, y |-> 0, magnitude |-> 0, crossButton |-> FALSE,
   circleButton |-> FALSE, triangleButton |-> FALSE, squareButton |-> FALSE]

C29_EnableDisableRestoreNeutral ==
  [][/\ vc'.container = vc'.enabled
     /\ vc'.containers = (IF vc'.enabled THEN 1 ELSE 0)
     /\ vc'.enabled => (Enable(vc') = vc' /\ vc'.listeners = 1)
     /\ ~vc'.enabled => Disable(vc') = vc'
     /\ (~vc.enabled /\ vc'.enabled) =>
          (vc'.joystickTouch = NoTouch /\ GetInput(vc') = NeutralInput)]_vars

\* The part of C29 about the UI, which holds.
UIExistsIffEnabled ==
  /\ vc.container = vc.enabled
  /\ vc.containers = (IF vc.enabled THEN 1 ELSE 0)
  /\ vc.enabled => (Enable(vc) = vc /\ vc.listeners = 1)
  /\ ~vc.enabled => Disable(vc) = vc

\* C30: wasButtonJustPressed(b) is true exactly when b is pressed and was
\* not pressed at the latest updatePreviousState(); right after that call it
\* is false for every button, and it becomes true only by a touchstart on
\* the button.
C30_JustPressedIsRisingEdge ==
  [][/\ \A b \in ButtonNames :
          WasButtonJustPressed(vc', b) = (vc'.buttons[b] /\ ~vc'.atLastUpdate[b])
     /\ (vc' = UpdatePreviousState(vc)) =>
          \A b \in ButtonNames : ~WasButtonJustPressed(vc', b)
     /\ \A b \in ButtonNames :
          (~WasButtonJustPressed(vc, b) /\ WasButtonJustPressed(vc', b)) =>
            (~vc.buttons[b] /\ vc'.buttons[b])]_vars

\* The cross button is held since before the latest updatePreviousState()
\* and no longer just pressed; the circle button has just been pressed.
C30_Witness ==
  /\ vc.buttons.cross /\ vc.atLastUpdate.cross /\ ~WasButtonJustPressed(vc, "cross")
  /\ vc.buttons.circle /\ WasButtonJustPressed(vc, "circle")

====
